---- MODULE Spec2Model ----
(***************************************************************************)
(* State-machine model of                                                  *)
(*   internal/renderers/gsplat_appearance_embedding_renderer.py            *)
(* (GSplatAppearanceEmbeddingRendererModule and its Mip variant).          *)
(*                                                                         *)
(* Numbers.  Colours, opacities and the anti-aliasing compensation are     *)
(* fixed-point hundredths (ONE = 1.0).  A colour is one component: the     *)
(* three components of a point go through the same elementwise             *)
(* expressions.  Depths are integers in units of 1e-8, and an inverse      *)
(* depth is the exact rational <<numerator, denominator>>.  Learning-rate  *)
(* multipliers are exact rationals <<numerator, denominator>>.             *)
(*                                                                         *)
(* External primitives (projection, spherical harmonics, the offset        *)
(* network, rasterization, the base renderer) are opaque: their results    *)
(* are either fields of the scene the frame is rendered from, or the        *)
(* record of the arguments they were called with.                          *)
(***************************************************************************)
EXTENDS Integers, Sequences, FiniteSets, TLC

\* ------------------------------------------------------------- bounds
MaxImages == 2      \* images listed by the datamodule
MaxId == 2          \* largest appearance id of the datamodule
MaxRows == 2        \* rows of a persisted embedding table
MaxPoints == 2      \* gaussians of a scene
MaxStep == 2        \* largest training step handed to training_forward
MaxEpoch == 4       \* scheduler steps taken
MaxWarmUp == 1      \* largest warm_up of the schedule check
MaxMaxSteps == 2    \* largest max_steps of the schedule check

\* ---------------------------------------------------- program constants
ONE == 100                  \* 1.0 in hundredths
HALF == 50                  \* the 0.5 added to the SH colour
DepthUnit == 100000000      \* units per 1.0 of depth: 1e-8 is one unit
KERNEL_BASE == 3            \* filter_2d_kernel_size default 0.3, in tenths
KERNEL_MIP == 1             \* filter_2d_kernel_size default 0.1, in tenths
N_APPEARANCES_DEFAULT == -1 \* ModelConfig.n_appearances default

None == [none |-> TRUE]

\* ------------------------------------------------------------- helpers
Min(a, b) == IF a < b THEN a ELSE b

Max(a, b) == IF a > b THEN a ELSE b

RECURSIVE Power(_, _)
Power(b, e) == IF e = 0 THEN 1 ELSE b * Power(b, e - 1)

\* the integer m-th root of a perfect m-th power
IRoot(n, m) == CHOOSE r \in 0..n : Power(r, m) = n

RatEq(a, b) == a[1] * b[2] = b[1] * a[2]

RatLeq(a, b) == a[1] * b[2] <= b[1] * a[2]

\* tensor[mask]: the entries of seq at the positions where mask holds
RECURSIVE Mask(_, _)
Mask(seq, mask) ==
    IF Len(seq) = 0 THEN <<>>
    ELSE LET n == Len(seq)
             front == Mask(SubSeq(seq, 1, n - 1), SubSeq(mask, 1, n - 1))
         IN IF mask[n] THEN Append(front, seq[n]) ELSE front

\* the number of positions up to i where mask holds
RECURSIVE Rank(_, _)
Rank(mask, i) == IF i = 0 THEN 0 ELSE Rank(mask, i - 1) + (IF mask[i] THEN 1 ELSE 0)

\* buffer[mask] = vals: vals written, in order, to the positions where mask holds
Scatter(buffer, mask, vals) ==
    [i \in 1..Len(buffer) |-> IF mask[i] THEN vals[Rank(mask, i)] ELSE buffer[i]]

\* torch.clamp(x, min=lo, max=hi)
clamp(x, lo, hi) == Min(Max(x, lo), hi)

\* a * b of two fixed-point values
Mul(a, b) == (a * b) \div ONE

VARIABLES
    variant,                \* "base": ...RendererModule, "mip": ...MipRendererModule
    anti_aliased,           \* self.anti_aliased
    filter_2d_kernel_size,  \* self.filter_2d_kernel_size, in tenths
    n_appearances,          \* self.model_config.n_appearances
    optimization_config,    \* self.optimization_config
    model,                  \* self.model (and self.renderer, built with it)
    schedulers,             \* the two LambdaLR schedulers of training_setup
    datamodule,             \* dataparser_outputs.appearance_group_ids
    scene,                  \* pc, viewpoint_camera, bg_color and what the primitives return
    ret,                    \* the last call: its name, arguments and result
    first_setup,            \* history: what the first setup with a module found and built
    last_load               \* history: the last load_state_dict

vars == <<variant, anti_aliased, filter_2d_kernel_size, n_appearances,
          optimization_config, model, schedulers, datamodule, scene, ret,
          first_setup, last_load>>

\* ------------------------------------------------------ model building
NoModel == [built |-> FALSE, rows |-> 0]

\* Model.__init__ / Model._setup: the embedding table has config.n_appearances rows
Model(n) == [built |-> TRUE, rows |-> n]

\* _setup_model: self.model = Model(self.model_config), self.renderer = GSPlatRenderer()
SetupModel(n) == Model(n)

\* the loop of setup over appearance_group_ids.values(): the running maximum of i[0]
RECURSIVE MaxInputId(_, _)
MaxInputId(ids, max_input_id) ==
    IF Len(ids) = 0 THEN max_input_id
    ELSE MaxInputId(Tail(ids), IF Head(ids) > max_input_id THEN Head(ids) ELSE max_input_id)

\* mutation of InferNAppearances: the largest id itself, without the + 1
InferNoPlusOne(appearance_group_ids) ==
    IF appearance_group_ids.is_none THEN 0 ELSE MaxInputId(appearance_group_ids.ids, 0)

\* setup, lines 123-129: n_appearances = max_input_id + 1
InferNAppearances(appearance_group_ids) ==
    (IF appearance_group_ids.is_none THEN 0
     ELSE MaxInputId(appearance_group_ids.ids, 0)) + 1

\* mutation of NeedsInference: every setup infers the count again
NeedsInferenceAlways(n) == TRUE

\* setup, line 122: n_appearances is inferred only when not configured
NeedsInference(n) == n <= 0

\* setup(stage, lightning_module)
setup(lightning_module) ==
    LET n == IF lightning_module /\ NeedsInference(n_appearances)
             THEN InferNAppearances(datamodule)
             ELSE n_appearances
    IN /\ n_appearances' = n
       /\ model' = IF lightning_module THEN SetupModel(n) ELSE model
       /\ first_setup' = IF lightning_module /\ ~first_setup.done
                         THEN [done |-> TRUE,
                               explicit |-> ~NeedsInference(n_appearances),
                               configured |-> n_appearances,
                               rows |-> n]
                         ELSE first_setup
       /\ ret' = [op |-> "setup", lightning_module |-> lightning_module,
                  n_before |-> n_appearances]
       /\ UNCHANGED <<variant, anti_aliased, filter_2d_kernel_size, optimization_config,
                      schedulers, datamodule, scene, last_load>>

\* mutation of LoadedNAppearances: the configured count is kept on load
LoadedNAppearancesKept(rows) == n_appearances

\* load_state_dict, line 144: the configured count becomes the persisted row count
LoadedNAppearances(rows) == rows

\* load_state_dict(state_dict): rows = state_dict["model.embedding.weight"].shape[0]
load_state_dict(rows) ==
    /\ n_appearances' = LoadedNAppearances(rows)
    /\ model' = SetupModel(n_appearances')
    /\ last_load' = [done |-> TRUE, rows |-> rows]
    /\ ret' = [op |-> "load_state_dict", rows |-> rows, n_before |-> n_appearances,
               strict_ok |-> (model'.rows = rows)]
    /\ UNCHANGED <<variant, anti_aliased, filter_2d_kernel_size, optimization_config,
                   schedulers, datamodule, scene, first_setup>>

\* ---------------------------------------------------------- schedule
\* base ** (num / den) for a base whose numerator and denominator are perfect
\* den-th powers (the configurations of this model): an exact rational
PowFrac(base, num, den) ==
    <<Power(IRoot(base[1], den), num), Power(IRoot(base[2], den), num)>>

\* mutation of lr_lambda: the decay starts at step 0, not after warm_up
LrLambdaNoWarmUp(iter, lr_final_factor, max_steps, warm_up) ==
    PowFrac(lr_final_factor, Min(Max(iter, 0), max_steps), max_steps)

\* line 280: lr_final_factor ** min(max(iter - warm_up, 0) / max_steps, 1)
\* (a / max_steps >= 1 exactly when a >= max_steps, as max_steps > 0)
lr_lambda(iter, lr_final_factor, max_steps, warm_up) ==
    LET a == Max(iter - warm_up, 0)
    IN IF a >= max_steps
       THEN PowFrac(lr_final_factor, max_steps, max_steps)
       ELSE PowFrac(lr_final_factor, a, max_steps)

NoSchedulers == [built |-> FALSE]

\* _create_optimizer_and_scheduler: LambdaLR takes its first step on construction
\* (last_epoch 0) and keeps the arguments its lambda closes over
CreateOptimizerAndScheduler(name, lr_final_factor, max_steps, warm_up) ==
    [name |-> name,
     lr_final_factor |-> lr_final_factor,
     max_steps |-> max_steps,
     warm_up |-> warm_up,
     last_epoch |-> 0,
     factor |-> lr_lambda(0, lr_final_factor, max_steps, warm_up)]

\* training_setup(module): both schedulers get optimization_config.lr_final_factor
training_setup ==
    /\ schedulers' =
         IF model.built
         THEN [built |-> TRUE,
               embedding |-> CreateOptimizerAndScheduler(
                   "embedding",
                   optimization_config.lr_final_factor,
                   optimization_config.max_steps,
                   optimization_config.warm_up),
               embedding_network |-> CreateOptimizerAndScheduler(
                   "embedding_network",
                   optimization_config.lr_final_factor,
                   optimization_config.max_steps,
                   optimization_config.warm_up)]
         ELSE schedulers
    /\ ret' = [op |-> "training_setup",
               error |-> IF model.built THEN "none" ELSE "AttributeError"]
    /\ UNCHANGED <<variant, anti_aliased, filter_2d_kernel_size, n_appearances,
                   optimization_config, model, datamodule, scene, first_setup, last_load>>

\* LambdaLR.step() of one scheduler: last_epoch += 1, lr = lr_init * lr_lambda(last_epoch)
SchedulerStepped(s) ==
    [s EXCEPT !.last_epoch = s.last_epoch + 1,
              !.factor = lr_lambda(s.last_epoch + 1, s.lr_final_factor, s.max_steps, s.warm_up)]

scheduler_step(name) ==
    /\ schedulers.built
    /\ schedulers[name].last_epoch < MaxEpoch
    /\ schedulers' = [schedulers EXCEPT ![name] = SchedulerStepped(schedulers[name])]
    /\ ret' = [op |-> "scheduler_step", name |-> name]
    /\ UNCHANGED <<variant, anti_aliased, filter_2d_kernel_size, n_appearances,
                   optimization_config, model, datamodule, scene, first_setup, last_load>>

\* ------------------------------------------------------------- render
\* the channel names forward recognizes (lines 195, 216, 228)
KnownRenderTypes == {"rgb", "inverse_depth", "hard_inverse_depth"}

\* a render-type string forward does not recognize
UnknownRenderTypes == {"normal"}

\* the render_types argument: not given (None), or a list, which forward only
\* tests for membership
RenderTypeArgs ==
    {[given |-> FALSE, types |-> {}]}
    \cup {[given |-> TRUE, types |-> S] : S \in SUBSET (KnownRenderTypes \cup UnknownRenderTypes)}

\* mutation of DefaultRenderTypes: the inverse depth is rendered by default too
DefaultRenderTypesAll == {"rgb", "inverse_depth"}

\* lines 183-184: render_types = ["rgb"] when none are given
DefaultRenderTypes == {"rgb"}

Field(points, f) == [i \in 1..Len(points) |-> points[i][f]]

\* the arguments of GSPlatRenderer.project
ProjectCall(scales, kernel) ==
    [means3D |-> "pc.get_xyz", scales |-> scales, rotations |-> "pc.get_rotation",
     scaling_modifier |-> ONE, filter_2d_kernel_size |-> kernel]

\* GSplatAppearanceEmbeddingRendererModule.preprocess: raw scales, raw opacities
preprocess_base(sc) ==
    [project |-> ProjectCall(Field(sc.points, "scaling"), filter_2d_kernel_size),
     opacities |-> Field(sc.points, "opacity")]

\* mutation of preprocess_mip: filtered scales, but pc.get_opacities()
preprocess_mip_raw_opacities(sc) ==
    [project |-> ProjectCall(Field(sc.points, "filtered_scaling"), filter_2d_kernel_size),
     opacities |-> Field(sc.points, "opacity")]

\* GSplatAppearanceEmbeddingMipRendererModule.preprocess:
\* opacities, scales = pc.get_3d_filtered_scales_and_opacities()
preprocess_mip(sc) ==
    [project |-> ProjectCall(Field(sc.points, "filtered_scaling"), filter_2d_kernel_size),
     opacities |-> Field(sc.points, "filtered_opacity")]

\* self.preprocess, dispatched on the class of the module
preprocess(sc) == IF variant = "mip" THEN preprocess_mip(sc) ELSE preprocess_base(sc)

\* mutation of Compensate: the compensation factor applied a second time
CompensateTwice(opacities, comp) ==
    [i \in 1..Len(opacities) |-> Mul(Mul(opacities[i], comp[i]), comp[i])]

\* line 192: opacities = opacities * comp[:, None]
Compensate(opacities, comp) ==
    [i \in 1..Len(opacities) |-> Mul(opacities[i], comp[i])]

\* Model.forward: the sigmoid outputs of the offset network, one per row handed in
Model_forward(network_outputs, mask) == Mask(network_outputs, mask)

\* mutation of Compose: the sum without the clamp
ComposeNoClamp(base_rgb, rgb_offset) ==
    [k \in 1..Len(base_rgb) |-> base_rgb[k] + rgb_offset[k]]

\* line 204: torch.clamp(base_rgb + rgb_offset, min=0., max=1.)
Compose(base_rgb, rgb_offset) ==
    [k \in 1..Len(base_rgb) |-> clamp(base_rgb[k] + rgb_offset[k], 0, ONE)]

\* lines 217, 229: 1. / (depths.clamp_min(0.) + 1e-8)
inverse_depth(depths) ==
    [i \in 1..Len(depths) |-> <<DepthUnit, Max(depths[i], 0) + 1>>]

\* mutation of HardOpacities: the opacities as they are
HardOpacitiesSoft(opacities) == opacities

\* line 235: opacities + (1 - opacities.detach())
HardOpacities(opacities) ==
    [i \in 1..Len(opacities) |-> opacities[i] + (ONE - opacities[i])]

\* self.renderer.rasterize_simplified: the image of these arguments
rasterize_simplified(colors, bg_color, opacities, aa) ==
    [colors |-> colors, bg_color |-> bg_color, opacities |-> opacities, anti_aliased |-> aa]

\* forward after line 186, from what self.preprocess returned
ForwardFrom(pre, sc, render_types_arg) ==
    LET render_types == IF render_types_arg.given THEN render_types_arg.types
                        ELSE DefaultRenderTypes
        radii == Field(sc.points, "radius")
        depths == Field(sc.points, "depth")
        comp == Field(sc.points, "comp")
        is_gaussian_visible == [i \in 1..Len(radii) |-> radii[i] > 0]
        opacities == IF anti_aliased THEN Compensate(pre.opacities, comp) ELSE pre.opacities
        sh == Mask(Field(sc.points, "sh"), is_gaussian_visible)
        base_rgb == [k \in 1..Len(sh) |-> sh[k] + HALF]
        sigmoid == Model_forward(Field(sc.points, "sig"), is_gaussian_visible)
        rgb_offset == [k \in 1..Len(sigmoid) |-> sigmoid[k] * 2 - ONE]
        zeros == [i \in 1..Len(radii) |-> 0]
        rgbs == Scatter(zeros, is_gaussian_visible, Compose(base_rgb, rgb_offset))
        rgb == IF "rgb" \in render_types
               THEN rasterize_simplified(rgbs, sc.bg_color, opacities, FALSE)
               ELSE None
        inverse_depth_im ==
            IF "inverse_depth" \in render_types
            THEN rasterize_simplified(inverse_depth(depths), 0, opacities, FALSE)
            ELSE None
        hard_inverse_depth_im ==
            IF "hard_inverse_depth" \in render_types
            THEN rasterize_simplified(inverse_depth(depths), 0, HardOpacities(opacities), FALSE)
            ELSE None
        \* before setup there is neither self.model nor self.renderer
        failed == ~model.built /\ render_types \cap KnownRenderTypes # {}
    IN [error |-> IF failed THEN "AttributeError" ELSE "none",
        delegated |-> FALSE,
        model_called |-> model.built /\ "rgb" \in render_types,
        render_types |-> render_types,
        project |-> pre.project,
        opacities |-> opacities,
        out |-> IF failed THEN None
                ELSE [render |-> rgb,
                      inverse_depth |-> inverse_depth_im,
                      hard_inverse_depth |-> hard_inverse_depth_im,
                      viewspace_points |-> "xys",
                      viewspace_points_grad_scale |->
                          <<sc.camera.width \div 2, sc.camera.height \div 2>>,
                      visibility_filter |-> is_gaussian_visible,
                      radii |-> radii]]

\* forward(viewpoint_camera, pc, bg_color, scaling_modifier, render_types)
forward(sc, render_types_arg) == ForwardFrom(preprocess(sc), sc, render_types_arg)

\* self.renderer(viewpoint_camera, pc, bg_color, scaling_modifier, **kwargs):
\* the base GSPlatRenderer, built without arguments, renders the frame itself
base_renderer(sc, render_types_arg) ==
    [error |-> IF model.built THEN "none" ELSE "AttributeError",
     delegated |-> model.built,
     model_called |-> FALSE,
     render_types |-> render_types_arg.types,
     project |-> None,
     opacities |-> <<>>,
     out |-> IF model.built
             THEN [base_renderer |-> TRUE, scaling_modifier |-> ONE,
                   kwargs |-> render_types_arg]
             ELSE None]

\* mutation of InWarmUp: step warm_up still counts as warm-up
WarmUpInclusive(step) == step <= optimization_config.warm_up

\* line 250: step < self.optimization_config.warm_up
InWarmUp(step) == step < optimization_config.warm_up

\* training_forward(step, module, viewpoint_camera, pc, bg_color, scaling_modifier, **kwargs)
training_forward(step, sc, render_types_arg) ==
    IF InWarmUp(step)
    THEN base_renderer(sc, render_types_arg)
    ELSE forward(sc, render_types_arg)

Forward ==
    \E render_types_arg \in RenderTypeArgs :
        /\ ret' = [op |-> "forward", step |-> 0, arg |-> render_types_arg,
                   res |-> forward(scene, render_types_arg)]
        /\ UNCHANGED <<variant, anti_aliased, filter_2d_kernel_size, n_appearances,
                       optimization_config, model, schedulers, datamodule, scene,
                       first_setup, last_load>>

TrainingForward ==
    \E step \in 0..MaxStep, render_types_arg \in RenderTypeArgs :
        /\ ret' = [op |-> "training_forward", step |-> step, arg |-> render_types_arg,
                   res |-> training_forward(step, scene, render_types_arg)]
        /\ UNCHANGED <<variant, anti_aliased, filter_2d_kernel_size, n_appearances,
                       optimization_config, model, schedulers, datamodule, scene,
                       first_setup, last_load>>

\* -------------------------------------------------------- initial states
\* GSplatAppearanceEmbeddingRenderer.filter_2d_kernel_size = 0.3,
\* GSplatAppearanceEmbeddingMipRenderer.filter_2d_kernel_size = 0.1
DefaultKernel(v) == IF v = "mip" THEN KERNEL_MIP ELSE KERNEL_BASE

\* an OptimizationConfig whose final factors are root ** max_steps, so that
\* every power lr_lambda takes of them is an exact rational
OptConfig(warm_up, max_steps, root, embedding_root) ==
    [warm_up |-> warm_up,
     max_steps |-> max_steps,
     lr_final_factor |-> <<Power(root[1], max_steps), Power(root[2], max_steps)>>,
     embedding_lr_final_factor |->
         <<Power(embedding_root[1], max_steps), Power(embedding_root[2], max_steps)>>]

Roots == {<<1, 1>>, <<1, 2>>, <<2, 3>>}

DefaultOptConfigs == {OptConfig(w, 1, <<1, 2>>, <<1, 2>>) : w \in 0..MaxWarmUp}

ScheduleOptConfigs ==
    {OptConfig(w, m, r, e) : w \in 0..MaxWarmUp, m \in 1..MaxMaxSteps, r \in Roots, e \in Roots}

\* appearance_group_ids: None, or the appearance id i[0] of every image
NoAppearanceGroups == [is_none |-> TRUE, ids |-> <<>>]

Datamodules ==
    {NoAppearanceGroups}
    \cup {[is_none |-> FALSE, ids |-> ids] :
            ids \in UNION {[1..n -> 0..MaxId] : n \in 0..MaxImages}}

Camera == [appearance_id |-> 0, width |-> 4, height |-> 2]

\* the gaussians of a scene: what the point cloud holds (opacity, scaling and their
\* 3D-filtered values) and what the primitives return for each (radius, depth and
\* comp from the projection, sh from spherical_harmonics, sig from the network)
PointsOf(radii, depths, comps, shs, sigs, opacities) ==
    [radius : radii, depth : depths, comp : comps, sh : shs, sig : sigs,
     opacity : opacities, filtered_opacity : {60}, scaling : {10}, filtered_scaling : {12}]

ScenesOf(points, n_max) ==
    UNION {[points : [1..n -> points], bg_color : {ONE}, camera : {Camera}] : n \in 1..n_max}

PlainPoints == PointsOf({0, 1}, {2 * DepthUnit}, {50}, {0}, {50}, {80})

\* base colours sh + 0.5 of -0.5 and 1.5, offsets of -1 and +1
ColourPoints == PointsOf({0, 1}, {2 * DepthUnit}, {50}, {-ONE, ONE}, {0, ONE}, {80})

\* depths behind and in front of the camera, opacities and compensations below 1
DepthPoints == PointsOf({1}, {-DepthUnit, 2 * DepthUnit}, {50, ONE}, {0}, {50}, {40, 80})

InitWith(variants, aas, kernels, n_apps, opt_configs, datamodules, scenes) ==
    /\ variant \in variants
    /\ anti_aliased \in aas
    /\ filter_2d_kernel_size \in {DefaultKernel(variant)} \cup kernels
    /\ n_appearances \in n_apps
    /\ optimization_config \in opt_configs
    /\ datamodule \in datamodules
    /\ scene \in scenes
    /\ model = NoModel
    /\ schedulers = NoSchedulers
    /\ ret = [op |-> "__init__"]
    /\ first_setup = [done |-> FALSE, explicit |-> FALSE, configured |-> 0, rows |-> 0]
    /\ last_load = [done |-> FALSE, rows |-> 0]

Variants == {"base", "mip"}

\* a filter_2d_kernel_size configured explicitly, in tenths
ExplicitKernels == {2}

\* the module as constructed, with one plain scene to render
Init ==
    InitWith(Variants, {FALSE}, {}, {N_APPEARANCES_DEFAULT}, DefaultOptConfigs,
             {NoAppearanceGroups}, ScenesOf(PlainPoints, 1))

\* every configured count and every datamodule
InitLifecycle ==
    InitWith({"base"}, {FALSE}, {}, {N_APPEARANCES_DEFAULT, 0} \cup 1..MaxRows,
             DefaultOptConfigs, Datamodules, ScenesOf(PlainPoints, 1))

\* every schedule configuration
InitSchedule ==
    InitWith({"base"}, {FALSE}, {}, {N_APPEARANCES_DEFAULT}, ScheduleOptConfigs,
             {NoAppearanceGroups}, ScenesOf(PlainPoints, 1))

\* every variant, anti-aliasing setting, kernel size and warm-up over plain scenes
InitRender ==
    InitWith(Variants, BOOLEAN, ExplicitKernels, {N_APPEARANCES_DEFAULT}, DefaultOptConfigs,
             {NoAppearanceGroups}, ScenesOf(PlainPoints, 1))

\* every colour over the base variant; every depth and opacity over both variants,
\* with and without anti-aliasing
InitFrame ==
    \/ InitWith({"base"}, {FALSE}, {}, {N_APPEARANCES_DEFAULT}, {OptConfig(0, 1, <<1, 2>>, <<1, 2>>)},
                {NoAppearanceGroups}, ScenesOf(ColourPoints, MaxPoints))
    \/ InitWith(Variants, BOOLEAN, {}, {N_APPEARANCES_DEFAULT}, {OptConfig(0, 1, <<1, 2>>, <<1, 2>>)},
                {NoAppearanceGroups}, ScenesOf(DepthPoints, MaxPoints))

\* ---------------------------------------------------------- transitions
Setup == \E lightning_module \in BOOLEAN : setup(lightning_module)

LoadStateDict == \E rows \in 1..MaxRows : load_state_dict(rows)

TrainingSetup == training_setup

SchedulerStep == \E name \in {"embedding", "embedding_network"} : scheduler_step(name)

Next ==
    \/ Setup
    \/ LoadStateDict
    \/ TrainingSetup
    \/ SchedulerStep
    \/ Forward
    \/ TrainingForward

NextLifecycle == Setup \/ LoadStateDict

NextSchedule == Setup \/ TrainingSetup \/ SchedulerStep

NextRender == Setup \/ Forward \/ TrainingForward

NextFrame == Setup \/ Forward

Spec == Init /\ [][Next]_vars

SpecLifecycle == InitLifecycle /\ [][NextLifecycle]_vars

SpecSchedule == InitSchedule /\ [][NextSchedule]_vars

SpecRender == InitRender /\ [][NextRender]_vars

SpecFrame == InitFrame /\ [][NextFrame]_vars

\* ------------------------------------------------- what the claims read
\* the render types a call's argument stands for
Requested(arg) == IF arg.given THEN arg.types ELSE {"rgb"}

\* the last call rendered a frame with a set-up module
Rendered == ret.op \in {"forward", "training_forward"} /\ model.built

\* the last call went through forward (directly, or from training_forward)
RenderedByForward == Rendered /\ ~ret.res.delegated

Points == scene.points

Idx == 1..Len(scene.points)

\* the opacities PROJECT hands on, by variant, and after the compensation
SourceOpacity(i) ==
    IF variant = "mip" THEN Points[i].filtered_opacity ELSE Points[i].opacity

CompensatedOpacity(i) ==
    IF anti_aliased THEN (SourceOpacity(i) * Points[i].comp) \div ONE ELSE SourceOpacity(i)

\* the appearance ids the datamodule lists
ObservedIds ==
    IF datamodule.is_none THEN {}
    ELSE {datamodule.ids[i] : i \in 1..Len(datamodule.ids)}

MaxObservedId ==
    IF ObservedIds = {} THEN 0
    ELSE CHOOSE m \in ObservedIds : \A x \in ObservedIds : x <= m

\* ------------------------------------------------------------------ C1
\* C1 as claimed: with a set-up module, training_forward at a step t < warm_up
\* delegates to the base renderer and never invokes Model.forward, and at a step
\* t >= warm_up it always invokes Model.forward, whatever render_types are requested.
C1_Original ==
    (ret.op = "training_forward" /\ model.built) =>
        IF ret.step < optimization_config.warm_up
        THEN ret.res.delegated /\ ~ret.res.model_called
        ELSE ret.res.model_called

\* C1 amended: with a set-up module, training_forward raises nothing; at a step
\* t < warm_up it delegates to the base renderer, runs no projection of its own and
\* never invokes Model.forward; at a step t >= warm_up it always goes through
\* forward, which invokes Model.forward exactly when "rgb" is among the requested
\* render types (it is when none are given).
C1_WarmUpGating ==
    (ret.op = "training_forward" /\ model.built) =>
        /\ ret.res.error = "none"
        /\ IF ret.step < optimization_config.warm_up
           THEN /\ ret.res.delegated
                /\ ~ret.res.model_called
                /\ ret.res.project = None
           ELSE /\ ~ret.res.delegated
                /\ ret.res.project # None
                /\ ret.res.model_called <=> "rgb" \in Requested(ret.arg)

\* a training step at the end of a non-empty warm-up that shades through the model
C1_Witness ==
    /\ ret.op = "training_forward"
    /\ model.built
    /\ optimization_config.warm_up > 0
    /\ ret.step = optimization_config.warm_up
    /\ ret.res.model_called
    /\ ~ret.res.delegated

\* ------------------------------------------------------------------ C3
\* C3: forward with a set-up module raises no error whatever strings are requested;
\* each of "render", "inverse_depth" and "hard_inverse_depth" is populated exactly
\* when "rgb", "inverse_depth" or "hard_inverse_depth" is requested and is None
\* otherwise; an unrecognized string adds no key to the bundle; with no list given,
\* exactly the rgb channel is rendered.
C3_ChannelSelection ==
    RenderedByForward =>
        LET out == ret.res.out
            req == ret.arg.types
        IN /\ ret.res.error = "none"
           /\ DOMAIN out = {"render", "inverse_depth", "hard_inverse_depth",
                            "viewspace_points", "viewspace_points_grad_scale",
                            "visibility_filter", "radii"}
           /\ ret.arg.given =>
                /\ (out.render # None) <=> ("rgb" \in req)
                /\ (out.inverse_depth # None) <=> ("inverse_depth" \in req)
                /\ (out.hard_inverse_depth # None) <=> ("hard_inverse_depth" \in req)
           /\ ~ret.arg.given =>
                /\ out.render # None
                /\ out.inverse_depth = None
                /\ out.hard_inverse_depth = None

\* a forward call asked for an unrecognized type and the inverse depth, not for rgb
C3_Witness ==
    /\ ret.op = "forward"
    /\ model.built
    /\ ret.arg.given
    /\ ret.arg.types = {"normal", "inverse_depth"}
    /\ ret.res.error = "none"
    /\ ret.res.out.render = None
    /\ ret.res.out.inverse_depth # None

\* ------------------------------------------------------------------ C2
\* C2: in every forward call that renders "rgb", every colour handed to the
\* rasterizer lies in [0,1]: a visible point (radius > 0) gets
\* clamp(base + offset, 0, 1) of its own base colour sh + 0.5 and its own offset
\* 2 * sigmoid - 1 in [-1,1], an invisible point keeps 0.
C2_CompositionClamp ==
    (RenderedByForward /\ "rgb" \in ret.res.render_types) =>
        LET colors == ret.res.out.render.colors
        IN /\ Len(colors) = Len(Points)
           /\ \A i \in Idx :
                LET base == Points[i].sh + HALF
                    offset == 2 * Points[i].sig - ONE
                    sum == base + offset
                IN /\ colors[i] \in 0..ONE
                   /\ offset \in (0 - ONE)..ONE
                   /\ Points[i].radius > 0 =>
                        colors[i] = (IF sum < 0 THEN 0 ELSE IF sum > ONE THEN ONE ELSE sum)
                   /\ Points[i].radius <= 0 => colors[i] = 0

\* rgb was rendered for an invisible point followed by a visible one whose
\* base + offset exceeds 1
C2_Witness ==
    /\ RenderedByForward
    /\ "rgb" \in ret.res.render_types
    /\ Len(Points) = 2
    /\ Points[1].radius = 0
    /\ Points[2].radius > 0
    /\ Points[2].sh + HALF + 2 * Points[2].sig - ONE > ONE
    /\ ret.res.out.render.colors = <<0, ONE>>

\* ------------------------------------------------------------------ C8
\* C8: the "hard_inverse_depth" channel is rasterized with the inverse-depth colours
\* 1 / (max(depth, 0) + 1e-8) and a zero background, like "inverse_depth", and with an
\* opacity of exactly 1 for every point, whatever its opacity: it is the inverse-depth
\* channel rendered with opacity forced to 1.
C8_HardInverseDepth ==
    (RenderedByForward /\ "hard_inverse_depth" \in ret.res.render_types) =>
        LET hard == ret.res.out.hard_inverse_depth
            colors == [i \in Idx |->
                         <<DepthUnit,
                           (IF Points[i].depth < 0 THEN 0 ELSE Points[i].depth) + 1>>]
        IN /\ hard.colors = colors
           /\ hard.bg_color = 0
           /\ \A i \in Idx : hard.opacities[i] = ONE
           /\ hard = [colors |-> colors, bg_color |-> 0,
                      opacities |-> [i \in Idx |-> ONE], anti_aliased |-> FALSE]
           /\ "inverse_depth" \in ret.res.render_types =>
                /\ ret.res.out.inverse_depth.colors = hard.colors
                /\ ret.res.out.inverse_depth.bg_color = hard.bg_color

\* both depth channels were rendered for a point behind the camera whose opacity is
\* below 1
C8_Witness ==
    /\ RenderedByForward
    /\ {"inverse_depth", "hard_inverse_depth"} \subseteq ret.res.render_types
    /\ \E i \in Idx :
        /\ Points[i].depth < 0
        /\ ret.res.out.inverse_depth.opacities[i] < ONE
        /\ ret.res.out.hard_inverse_depth.opacities[i] = ONE

\* ------------------------------------------------------------------ C9
\* C9 as claimed: the opacities are multiplied by comp once when anti_aliased is
\* enabled and left unchanged otherwise, and every rasterization call of every
\* channel (rgb, inverse_depth, hard_inverse_depth) receives these opacities with
\* anti-aliasing disabled.
C9_Original ==
    RenderedByForward =>
        \A key \in {"render", "inverse_depth", "hard_inverse_depth"} :
            ret.res.out[key] # None =>
                /\ ~ret.res.out[key].anti_aliased
                /\ \A i \in Idx : ret.res.out[key].opacities[i] = CompensatedOpacity(i)

\* C9 amended: the opacities are multiplied by comp once when anti_aliased is
\* enabled and left unchanged otherwise; the rasterization calls of rgb and
\* inverse_depth receive these opacities, the call of hard_inverse_depth receives
\* opacities + (1 - opacities) built from them, which is 1; every call is made with
\* anti-aliasing disabled.
C9_CompensationOnce ==
    RenderedByForward =>
        /\ \A i \in Idx : ret.res.opacities[i] = CompensatedOpacity(i)
        /\ \A key \in {"render", "inverse_depth", "hard_inverse_depth"} :
            ret.res.out[key] # None =>
                /\ ~ret.res.out[key].anti_aliased
                /\ \A i \in Idx :
                    ret.res.out[key].opacities[i] =
                        IF key = "hard_inverse_depth"
                        THEN CompensatedOpacity(i) + (ONE - CompensatedOpacity(i))
                        ELSE CompensatedOpacity(i)

\* an anti-aliased frame with all three channels and a compensation below 1
C9_Witness ==
    /\ RenderedByForward
    /\ anti_aliased
    /\ ret.res.render_types = KnownRenderTypes
    /\ \E i \in Idx :
        /\ Points[i].comp < ONE
        /\ ret.res.out.render.opacities[i] < SourceOpacity(i)
        /\ ret.res.out.inverse_depth.opacities[i] < SourceOpacity(i)

\* ----------------------------------------------------------------- C10
\* the scene whose raw scale and opacity fields hold the 3D-filtered values
Prefiltered(sc) ==
    [sc EXCEPT !.points = [i \in 1..Len(sc.points) |->
        [sc.points[i] EXCEPT !.scaling = sc.points[i].filtered_scaling,
                             !.opacity = sc.points[i].filtered_opacity]]]

\* C10: in every render it performs (forward, and training_forward at any step) the
\* Mip variant does what the base module does and differs only in PROJECT, which
\* takes scales and opacities from get_3d_filtered_scales_and_opacities instead of
\* the raw fields, and in the default kernel size (0.1 instead of 0.3): a frame that
\* goes through forward is the base module's frame of the pre-filtered scene, with
\* the same other projection arguments, visibility mask and radii; at a step
\* t < warm_up either variant hands the frame to the base renderer alike and runs no
\* PROJECT of its own.
C10_FilteredScaleVariant ==
    /\ filter_2d_kernel_size \in
         {IF variant = "mip" THEN KERNEL_MIP ELSE KERNEL_BASE} \cup ExplicitKernels
    /\ Rendered =>
         IF ret.res.delegated
         THEN /\ ret.op = "training_forward"
              /\ ret.step < optimization_config.warm_up
              /\ ret.res.project = None
              /\ ret.res.out = [base_renderer |-> TRUE, scaling_modifier |-> ONE,
                                kwargs |-> ret.arg]
         ELSE /\ ret.op = "training_forward" => ret.step >= optimization_config.warm_up
              /\ ret.res.project =
                   [means3D |-> "pc.get_xyz",
                    scales |-> [i \in Idx |-> IF variant = "mip"
                                              THEN Points[i].filtered_scaling
                                              ELSE Points[i].scaling],
                    rotations |-> "pc.get_rotation",
                    scaling_modifier |-> ONE,
                    filter_2d_kernel_size |-> filter_2d_kernel_size]
              /\ \A i \in Idx : ret.res.opacities[i] = CompensatedOpacity(i)
              /\ ret.res.out.radii = [i \in Idx |-> Points[i].radius]
              /\ ret.res.out.visibility_filter = [i \in Idx |-> Points[i].radius > 0]
              /\ variant = "mip" =>
                   ret.res = ForwardFrom(preprocess_base(Prefiltered(scene)), scene, ret.arg)

\* the Mip variant rendered rgb through forward from the filtered scales and
\* opacities, which differ from the raw ones
C10_Witness ==
    /\ RenderedByForward
    /\ variant = "mip"
    /\ filter_2d_kernel_size = KERNEL_MIP
    /\ ret.res.project.scales = [i \in Idx |-> Points[i].filtered_scaling]
    /\ \E i \in Idx :
        /\ Points[i].filtered_opacity # Points[i].opacity
        /\ Points[i].filtered_scaling # Points[i].scaling
        /\ ret.res.out.render # None
        /\ ret.res.out.render.opacities[i] = CompensatedOpacity(i)

\* ------------------------------------------------------------------ C4
\* C4: both schedulers of training_setup multiply the learning rate at step t by
\* lr_final_factor ^ clamp((t - warm_up) / max_steps, 0, 1): 1 at every t <= warm_up,
\* lr_final_factor at t = warm_up + max_steps and later, and never more at t + 1 than
\* at t for t >= warm_up (0 < lr_final_factor <= 1).
C4_LearningRateSchedule ==
    schedulers.built =>
        \A name \in {"embedding", "embedding_network"} :
            LET s == schedulers[name]
                t == s.last_epoch
                w == optimization_config.warm_up
                m == optimization_config.max_steps
                ff == optimization_config.lr_final_factor
                k == IF t - w < 0 THEN 0 ELSE IF t - w > m THEN m ELSE t - w
            IN \* factor ^ m = ff ^ k
               /\ Power(s.factor[1], m) * Power(ff[2], k)
                    = Power(ff[1], k) * Power(s.factor[2], m)
               /\ s.factor[1] > 0 /\ s.factor[2] > 0
               /\ t <= w => RatEq(s.factor, <<1, 1>>)
               /\ t >= w + m => RatEq(s.factor, ff)
               /\ t >= w => RatLeq(SchedulerStepped(s).factor, s.factor)

\* the embedding scheduler reached warm_up + max_steps after a non-empty warm-up,
\* with a final factor below 1 that is not the configured embedding_lr_final_factor
C4_Witness ==
    /\ schedulers.built
    /\ optimization_config.warm_up > 0
    /\ optimization_config.max_steps > 1
    /\ schedulers.embedding.last_epoch
         = optimization_config.warm_up + optimization_config.max_steps
    /\ ~RatEq(optimization_config.lr_final_factor, <<1, 1>>)
    /\ ~RatEq(optimization_config.lr_final_factor,
              optimization_config.embedding_lr_final_factor)
    /\ RatEq(schedulers.embedding.factor, optimization_config.lr_final_factor)

\* ------------------------------------------------------------------ C5
\* C5: load_state_dict with a persisted table of R rows sets n_appearances to R and
\* rebuilds the model with an R-row table, whatever was configured before; after any
\* sequence of setup and load_state_dict calls, an existing model's table has
\* n_appearances rows.
C5_CheckpointSelfHealing ==
    /\ model.built => n_appearances = model.rows
    /\ ret.op = "load_state_dict" =>
         /\ n_appearances = ret.rows
         /\ model.built
         /\ model.rows = ret.rows

\* a checkpoint was loaded after setup whose table differs from the count setup had
\* settled
C5_Witness ==
    /\ ret.op = "load_state_dict"
    /\ first_setup.done
    /\ ret.n_before > 0
    /\ ret.n_before # ret.rows
    /\ model.rows = ret.rows

\* ------------------------------------------------------------------ C6
\* C6: setup with a lightning module sets an unconfigured n_appearances (<= 0) to
\* max(observed appearance ids) + 1 over the datamodule's appearance group ids (1 when
\* there are none) and leaves a configured one (> 0) unchanged, so a later setup
\* never infers it again; the model it builds has that many rows.  (Without a
\* lightning module setup does nothing.)
C6_EmbeddingCountInference ==
    ret.op = "setup" =>
        IF ret.lightning_module
        THEN /\ n_appearances = IF ret.n_before <= 0 THEN MaxObservedId + 1 ELSE ret.n_before
             /\ n_appearances > 0
             /\ model = [built |-> TRUE, rows |-> n_appearances]
        ELSE n_appearances = ret.n_before

\* setup inferred the count from a datamodule whose largest id is above 0
C6_Witness ==
    /\ ret.op = "setup"
    /\ ret.lightning_module
    /\ ret.n_before <= 0
    /\ MaxObservedId > 0
    /\ n_appearances = MaxObservedId + 1

\* ------------------------------------------------------------------ C7
\* C7 as claimed: in every state reached after setup the embedding table's row count
\* is the count fixed at the first setup (inferred once, or configured) and stays
\* frozen.
C7_Original ==
    first_setup.done => model.built /\ model.rows = first_setup.rows

\* C7 amended: in every state reached after setup the embedding table exists; its row
\* count was fixed by the first setup to the configured count or, inferred once, to
\* max(observed appearance ids) + 1 (the number of distinct ids when these are
\* 0..n-1), and no later setup changes it; only load_state_dict changes it, to the
\* row count of the persisted table.
C7_TableSize ==
    first_setup.done =>
        /\ model.built
        /\ model.rows = IF last_load.done THEN last_load.rows ELSE first_setup.rows
        /\ first_setup.rows = IF first_setup.explicit THEN first_setup.configured
                              ELSE MaxObservedId + 1
        /\ (~first_setup.explicit /\ ObservedIds = 0..MaxObservedId) =>
             first_setup.rows = Cardinality(ObservedIds)

\* a setup after a checkpoint load that had changed the row count the first setup
\* inferred
C7_Witness ==
    /\ ret.op = "setup"
    /\ ret.lightning_module
    /\ first_setup.done
    /\ ~first_setup.explicit
    /\ last_load.done
    /\ last_load.rows # first_setup.rows
    /\ model.rows = last_load.rows

====
